---- MODULE Spec2Model ----
(***************************************************************************)
(* A model of h5io: the recursive write/read dispatcher of _h5io.py        *)
(* (write_hdf5, _triage_write, read_hdf5, _triage_read), the chunked array *)
(* writer (_create_write_chunked_array, ChunkedArray) and the chunked list *)
(* branch, over an abstract h5py container.                                *)
(*                                                                         *)
(* Strings are sequences of symbols.  The symbols are the letters "a",     *)
(* "b", the decimal digits, the path separator "/", and three multi-       *)
(* character atoms: "key_" and "idx_" (the two four-character prefixes the *)
(* writer puts in front of child names) and "{FWDSLASH}" (the escape token *)
(* of special_chars).  str.replace between "/" and the token is then a     *)
(* symbol-wise substitution, and key[4:] drops the prefix atom.            *)
(*                                                                         *)
(* Python values are records tagged by field t:                            *)
(*   [t |-> "None"]  [t |-> "int", i]  [t |-> "bool", b]  [t |-> "float",f]*)
(*   [t |-> "str", s]  [t |-> "list", e]  [t |-> "tuple", e]               *)
(*   [t |-> "dict", kv]   kv: the items in insertion order, <<[k, v]>>,    *)
(*                        k = [str |-> isinstance(key, str), s |-> text]   *)
(*   [t |-> "dict", m]    a dict compared without its order (what == sees) *)
(*   [t |-> "ChunkedList", data, size, start]                              *)
(*   [t |-> "ChunkedArray", chunkdata, shape, chunk_size, n_chunk]         *)
(*   [t |-> "bytes"]      a value of a type the writer does not support    *)
(* A float f stands for the double f/10 (f = 10 is 1.0).                   *)
(*                                                                         *)
(* Stored nodes:                                                           *)
(*   [kind |-> "group",   attrs, kids]   kids: child name -> node          *)
(*   [kind |-> "dataset", attrs, data]   data: a typed buffer              *)
(***************************************************************************)
EXTENDS Integers, Sequences, FiniteSets, TLC

VARIABLES file, wr, rd, hist

vars == <<file, wr, rd, hist>>

(***************************************************************************)
(* Strings                                                                 *)
(***************************************************************************)
FWDSLASH == "{FWDSLASH}"

SLASH == "/"

\* special_chars = {'{FWDSLASH}': '/'}
special_chars == <<[key_spec |-> FWDSLASH, val_spec |-> SLASH]>>

\* str.replace(old, new) for single-symbol old and new
StrReplace(s, old, new) == [i \in 1..Len(s) |-> IF s[i] = old THEN new ELSE s[i]]

\* for key_spec, val_spec in special_chars.items(): key = key.replace(val_spec, key_spec)
RECURSIVE EscapeFrom(_, _)
EscapeFrom(s, n) ==
    IF n > Len(special_chars) THEN s
    ELSE EscapeFrom(StrReplace(s, special_chars[n].val_spec, special_chars[n].key_spec), n + 1)

Escape(s) == EscapeFrom(s, 1)

\* for key_spec, val_spec in special_chars.items(): key = key.replace(key_spec, val_spec)
RECURSIVE UnescapeFrom(_, _)
UnescapeFrom(s, n) ==
    IF n > Len(special_chars) THEN s
    ELSE UnescapeFrom(StrReplace(s, special_chars[n].key_spec, special_chars[n].val_spec), n + 1)

Unescape(s) == UnescapeFrom(s, 1)

\* '/' in key
HasSlash(s) == \E i \in 1..Len(s) : s[i] = SLASH

Digit == <<"0", "1", "2", "3", "4", "5", "6", "7", "8", "9">>

\* '{0}'.format(n) for n >= 0
RECURSIVE IntStr(_)
IntStr(n) == IF n < 10 THEN <<Digit[n + 1]>> ELSE IntStr(n \div 10) \o <<Digit[(n % 10) + 1]>>

\* 'idx_{0}'.format(vi)
IdxName(vi) == <<"idx_">> \o IntStr(vi)

\* 'key_{0}'.format(key)
KeyName(s) == <<"key_">> \o s

\* key[4:] of a child name, whose first four characters are one prefix atom
Strip4(name) == Tail(name)

\* the character order of the symbols (ASCII: '/' < digits < letters < '{')
SymRank(c) ==
    CASE c = SLASH -> 0
      [] c \in {Digit[i] : i \in 1..10} -> 1 + (CHOOSE i \in 1..10 : Digit[i] = c)
      [] c = "a" -> 20
      [] c = "b" -> 21
      [] c = "c" -> 22
      [] c = "idx_" -> 30
      [] c = "key_" -> 31
      [] c = FWDSLASH -> 40
      [] OTHER -> 25

\* a < b for strings, character by character
RECURSIVE StrLess(_, _)
StrLess(a, b) ==
    IF Len(a) = 0 THEN Len(b) > 0
    ELSE IF Len(b) = 0 THEN FALSE
    ELSE IF Head(a) = Head(b) THEN StrLess(Tail(a), Tail(b))
    ELSE SymRank(Head(a)) < SymRank(Head(b))

\* the names of a group in the order h5py iterates them (by name)
RECURSIVE SortedNames(_)
SortedNames(S) ==
    IF S = {} THEN <<>>
    ELSE LET mn == CHOOSE x \in S : \A y \in S \ {x} : StrLess(x, y)
         IN  <<mn>> \o SortedNames(S \ {mn})

(***************************************************************************)
(* The container: h5py groups and datasets                                 *)
(***************************************************************************)
OK == "ok"

EmptyKids == << >>

Group(title) == [kind |-> "group", attrs |-> [TITLE |-> title], kids |-> EmptyKids]

Dataset(title, data) == [kind |-> "dataset", attrs |-> [TITLE |-> title], data |-> data]

\* key in root
Has(root, key) == key \in DOMAIN root

\* root[key] = node, for a name that is free or was just unlinked
Link(root, key, node) == [n \in DOMAIN root \cup {key} |-> IF n = key THEN node ELSE root[n]]

\* del root[key] for a name without a path separator that exists
Unlink(root, key) == [n \in DOMAIN root \ {key} |-> root[n]]

\* the children of group root[key] replaced (the writes made through sub_root)
SetKids(root, key, kids) == [root EXCEPT ![key] = [@ EXCEPT !.kids = kids]]

\* the components of an HDF5 path: the pieces between separators
RECURSIVE SplitPath(_, _, _)
SplitPath(s, n, cur) ==
    IF n > Len(s) THEN (IF cur = <<>> THEN <<>> ELSE <<cur>>)
    ELSE IF s[n] = SLASH
         THEN (IF cur = <<>> THEN <<>> ELSE <<cur>>) \o SplitPath(s, n + 1, <<>>)
         ELSE SplitPath(s, n + 1, Append(cur, s[n]))

\* del root[path]: h5py resolves the path through the groups below root and
\* raises KeyError when a component is missing
RECURSIVE DelComps(_, _)
DelComps(root, comps) ==
    IF comps = <<>> THEN [root |-> root, err |-> "KeyError"]
    ELSE IF ~Has(root, Head(comps)) THEN [root |-> root, err |-> "KeyError"]
    ELSE IF Len(comps) = 1 THEN [root |-> Unlink(root, Head(comps)), err |-> OK]
    ELSE IF root[Head(comps)].kind # "group" THEN [root |-> root, err |-> "KeyError"]
    ELSE LET d == DelComps(root[Head(comps)].kids, Tail(comps))
         IN  [root |-> SetKids(root, Head(comps), d.root), err |-> d.err]

DelLink(root, path) == DelComps(root, SplitPath(path, 1, <<>>))

\* _create_titled_group
CreateTitledGroup(root, key, title) == Link(root, key, Group(title))

\* _create_titled_dataset
CreateTitledDataset(root, key, title, data) == Link(root, key, Dataset(title, data))

\* if key in root: del root[key]
DelIfPresent(root, key) == IF Has(root, key) THEN Unlink(root, key) ELSE root

\* _get_sub_root: the root with a group titled title at key
GetSubRoot(root, key, title) ==
    IF ~Has(root, key) THEN CreateTitledGroup(root, key, title)
    ELSE IF root[key].attrs.TITLE # title
         THEN CreateTitledGroup(Unlink(root, key), key, title)
         ELSE root

(***************************************************************************)
(* Python dict primitives on the ordered items                             *)
(***************************************************************************)
StrKey(s) == [str |-> TRUE, s |-> s]

\* k in d
InDict(k, kv) == \E i \in 1..Len(kv) : kv[i].k = k

\* d.pop(k) for a key that is present: the value and the remaining items
DictGet(kv, k) == kv[CHOOSE i \in 1..Len(kv) : kv[i].k = k].v

DictRemove(kv, k) == SelectSeq(kv, LAMBDA it : it.k # k)

\* d[k] = v: in place for a present key, appended for a new one
DictSet(kv, k, v) ==
    IF InDict(k, kv)
    THEN [i \in 1..Len(kv) |-> IF kv[i].k = k THEN [k |-> k, v |-> v] ELSE kv[i]]
    ELSE Append(kv, [k |-> k, v |-> v])

(***************************************************************************)
(* The inline-JSON fast path                                               *)
(***************************************************************************)
\* _check_keys_in_dict, first loop: the (key, key_prev) pairs to rename
RECURSIVE CheckKeysScan(_, _, _, _)
CheckKeysScan(kv, n, slash, repl) ==
    IF n > Len(kv) THEN [err |-> OK, repl |-> repl]
    ELSE IF ~kv[n].k.str THEN [err |-> "TypeError", repl |-> repl]
    ELSE IF HasSlash(kv[n].k.s)
         THEN IF slash = "replace"
              THEN CheckKeysScan(kv, n + 1, slash,
                        Append(repl, [key |-> StrKey(Escape(kv[n].k.s)), key_prev |-> kv[n].k]))
              ELSE [err |-> "ValueError", repl |-> repl]
         ELSE CheckKeysScan(kv, n + 1, slash, repl)

\* _check_keys_in_dict, second loop: obj[key] = obj.pop(key_prev)
RECURSIVE CheckKeysRename(_, _, _)
CheckKeysRename(kv, repl, n) ==
    IF n > Len(repl) THEN kv
    ELSE CheckKeysRename(
            DictSet(DictRemove(kv, repl[n].key_prev), repl[n].key, DictGet(kv, repl[n].key_prev)),
            repl, n + 1)

\* _check_keys_in_dict: raises, or renames the keys of obj in place
CheckKeysInDict(obj, slash) ==
    LET sc == CheckKeysScan(obj.kv, 1, slash, <<>>)
    IN  IF sc.err # OK THEN [err |-> sc.err, obj |-> obj]
        ELSE [err |-> OK, obj |-> [obj EXCEPT !.kv = CheckKeysRename(obj.kv, sc.repl, 1)]]

RECURSIVE JsonCompatible(_, _)
RECURSIVE JsonCompatibleAll(_, _, _)

\* all([_json_compatible(item) for item in items]): every item is visited,
\* with the default slash='error'
JsonCompatibleAll(items, n, acc) ==
    IF n > Len(items) THEN [res |-> acc, err |-> OK]
    ELSE LET r == JsonCompatible(items[n], "error")
         IN  IF r.err # OK THEN [res |-> FALSE, err |-> r.err]
             ELSE JsonCompatibleAll(items, n + 1, acc /\ r.res)

\* _json_compatible: the answer, the exception if one is raised, and obj
\* as the call leaves it
JsonCompatible(obj, slash) ==
    IF obj.t \in {"str", "int", "float", "bool", "None"}
    THEN [res |-> TRUE, err |-> OK, obj |-> obj]
    ELSE IF obj.t = "list"
    THEN LET a == JsonCompatibleAll(obj.e, 1, TRUE)
         IN  [res |-> a.res, err |-> a.err, obj |-> obj]
    ELSE IF obj.t = "dict"
    THEN LET c == CheckKeysInDict(obj, slash)
             a == JsonCompatibleAll([i \in 1..Len(c.obj.kv) |-> c.obj.kv[i].v], 1, TRUE)
         IN  IF c.err # OK THEN [res |-> FALSE, err |-> c.err, obj |-> obj]
             ELSE [res |-> a.res, err |-> a.err, obj |-> c.obj]
    ELSE [res |-> FALSE, err |-> OK, obj |-> obj]

\* json.dumps: the JSON document of a value (arrays for lists and tuples,
\* objects with their members in order)
RECURSIVE JsonDumps(_)
JsonDumps(v) ==
    IF v.t \in {"list", "tuple"}
    THEN [j |-> "array", e |-> [i \in 1..Len(v.e) |-> JsonDumps(v.e[i])]]
    ELSE IF v.t = "dict"
    THEN [j |-> "object",
          kv |-> [i \in 1..Len(v.kv) |-> [k |-> v.kv[i].k.s, v |-> JsonDumps(v.kv[i].v)]]]
    ELSE [j |-> "scalar", v |-> v]

\* json.loads: arrays become lists, objects become dicts (a repeated member
\* name keeps its last value)
RECURSIVE JsonLoads(_)
JsonLoads(d) ==
    IF d.j = "array" THEN [t |-> "list", e |-> [i \in 1..Len(d.e) |-> JsonLoads(d.e[i])]]
    ELSE IF d.j = "object"
    THEN [t |-> "dict",
          m |-> [s \in {d.kv[i].k : i \in 1..Len(d.kv)} |->
                    LET last == CHOOSE i \in 1..Len(d.kv) :
                                    /\ d.kv[i].k = s
                                    /\ \A i2 \in 1..Len(d.kv) : d.kv[i2].k = s => i2 <= i
                    IN  JsonLoads(d.kv[last].v)]]
    ELSE d.v

(***************************************************************************)
(* Arrays and ChunkedArray (chunked_array.py)                              *)
(*   an array is [shape, at]: at maps 0-based index tuples to elements     *)
(***************************************************************************)
RECURSIVE IndexSet(_)
IndexSet(shape) ==
    IF shape = <<>> THEN {<<>>}
    ELSE {<<i>> \o r : i \in 0..(shape[1] - 1), r \in IndexSet(Tail(shape))}

\* the largest integer a float32 holds exactly in every value below it
F32Exact == 2 ^ 24

\* a double stored into a float32 dataset: exact up to 2^24, then rounded
\* to the nearest even multiple (round-half-to-even on the 24-bit mantissa)
Cast32(v) ==
    IF v <= F32Exact THEN v
    ELSE LET q == v \div 2
         IN  IF v % 2 = 0 THEN v ELSE IF q % 2 = 0 THEN 2 * q ELSE 2 * (q + 1)

\* ChunkedArray.__init__: the fragment, or the exception it raises
\* (shape[2] and chunk_size[2] are the third entries of the tuples)
ChunkedArrayInit(data, shape, chunk_size, n_chunk) ==
    IF Len(chunk_size) < 3 \/ Len(shape) < 3
    THEN [err |-> "IndexError"]
    ELSE LET cstart == n_chunk * chunk_size[3]
             cend0  == (n_chunk + 1) * chunk_size[3]
             cend   == IF cend0 > shape[3] THEN shape[3] ELSE cend0
         IN  IF cstart > shape[3] THEN [err |-> "ValueError"]
             ELSE IF Len(data.shape) < 3 THEN [err |-> "IndexError"]
             ELSE IF cend - cstart # data.shape[3] THEN [err |-> "ValueError"]
             ELSE [err |-> OK,
                   obj |-> [t |-> "ChunkedArray", chunkdata |-> data, shape |-> shape,
                            chunk_size |-> chunk_size, n_chunk |-> n_chunk,
                            chunk_start |-> cstart, chunk_end |-> cend]]

\* ChunkedArray.chunkslice: three slices (start, stop), step 1
chunkslice(value) ==
    << [start |-> 0, stop |-> value.shape[1]],
       [start |-> 0, stop |-> value.shape[2]],
       [start |-> value.chunk_start, stop |-> value.chunk_end] >>

\* np.all(stored != given) taken axis by axis, as for two arrays
ShapeDiffersInAllAxes(stored, given) ==
    Len(stored) # Len(given) \/ \A d \in 1..Len(stored) : stored[d] # given[d]

\* np.all(stored != given) for two tuples: tuple inequality is one bool
ShapeDiffers(stored, given) == stored # given

\* h5py create_dataset(key, shape, chunks=chunks): a zero-filled float32
\* dataset (no dtype is passed); h5py refuses chunks of another rank, empty
\* chunks and chunks larger than the shape
ChunksValid(shape, chunks) ==
    /\ Len(chunks) = Len(shape)
    /\ \A d \in 1..Len(shape) : chunks[d] >= 1 /\ chunks[d] <= shape[d]

NewChunkedDataset(name, shape, chunks) ==
    [kind |-> "dataset", attrs |-> [TITLE |-> name], shape |-> shape, chunks |-> chunks,
     data |-> [f32 |-> [ix \in IndexSet(shape) |-> 0]]]

\* dset[slices] = data for three slices inside the dataset's extent
SliceAssign(dset, sl, data) ==
    LET inside(ix) == \A d \in 1..3 : ix[d] >= sl[d].start /\ ix[d] < sl[d].stop
        src(ix)    == [d \in 1..3 |-> ix[d] - sl[d].start]
    IN  [dset EXCEPT !.data = [f32 |-> [ix \in DOMAIN dset.data.f32 |->
                                   IF inside(ix) THEN Cast32(data.at[src(ix)])
                                   ELSE dset.data.f32[ix]]]]

\* _create_write_chunked_array
CreateWriteChunkedArray(root, key, name, value) ==
    LET sl     == chunkslice(value)
        selshp == [d \in 1..3 |-> sl[d].stop - sl[d].start]
        put(r) == IF Len(r[key].shape) < 3 \/ selshp # value.chunkdata.shape
                  THEN [root |-> r, err |-> "TypeError"]
                  ELSE [root |-> [r EXCEPT ![key] = SliceAssign(@, sl, value.chunkdata)],
                        err |-> OK]
    IN  IF ~Has(root, key)
        THEN IF ~ChunksValid(value.shape, value.chunk_size)
             THEN [root |-> root, err |-> "ValueError"]
             ELSE put(Link(root, key, NewChunkedDataset(name, value.shape, value.chunk_size)))
        ELSE IF root[key].kind # "dataset" THEN [root |-> root, err |-> "AttributeError"]
        ELSE IF "shape" \notin DOMAIN root[key] THEN [root |-> root, err |-> "ValueError"]
        ELSE IF ShapeDiffers(root[key].shape, value.shape)
             THEN [root |-> root, err |-> "ValueError"]
        ELSE IF ShapeDiffers(root[key].chunks, value.chunk_size)
             THEN [root |-> root, err |-> "ValueError"]
        ELSE put(root)

(***************************************************************************)
(* Arrays with mixed dimensions: multiarray_dump, multiarray_load          *)
(*   a dense array is [t |-> "ndarray", dtype, shape, rows]: rows lists    *)
(*   the entries along the leading axis, each flattened to a sequence;     *)
(*   an array of arrays is [t |-> "ndarray", dtype |-> "object", subs]     *)
(***************************************************************************)
\* array.dtype == object and len(set([sub.dtype for sub in array])) == 1
IsObjectArrayOfOneDtype(array) ==
    /\ array.dtype = "object"
    /\ "subs" \in DOMAIN array
    /\ Cardinality({array.subs[i].dtype : i \in 1..Len(array.subs)}) = 1

\* _validate_sub_shapes: shape_lst[0][1:] == t[1:] for every t
ValidSubShapes(shape_lst) == \A i \in 1..Len(shape_lst) : Tail(shape_lst[1]) = Tail(shape_lst[i])

\* _index_sum: the running sums of index_lst
RECURSIVE IndexSum(_)
IndexSum(index_lst) ==
    IF index_lst = <<>> THEN <<>>
    ELSE LET n    == Len(index_lst)
             init == IndexSum(SubSeq(index_lst, 1, n - 1))
         IN  IF init # <<>> THEN Append(init, init[Len(init)] + index_lst[n])
             ELSE <<index_lst[n]>>

\* merged_lst += sub.tolist() for every sub
RECURSIVE MergedList(_)
MergedList(subs) == IF subs = <<>> THEN <<>> ELSE Head(subs).rows \o MergedList(Tail(subs))

\* the dtype numpy gives to a list of Python numbers
ListDtype(dtype) == IF dtype \in {"int64", "int32"} THEN "int64" ELSE "float64"

\* _merge_array: np.array(merged_lst); an empty list is a float64 array of shape (0,)
MergeArray(array) ==
    LET merged_lst == MergedList(array.subs)
    IN  IF merged_lst = <<>>
        THEN [t |-> "ndarray", dtype |-> "float64", shape |-> <<0>>, rows |-> <<>>]
        ELSE [t |-> "ndarray", dtype |-> ListDtype(array.subs[1].dtype),
              shape |-> <<Len(merged_lst)>> \o Tail(array.subs[1].shape), rows |-> merged_lst]

\* multiarray_dump
multiarray_dump(array) ==
    LET shape_lst == [i \in 1..Len(array.subs) |-> array.subs[i].shape]
    IN  IF ~IsObjectArrayOfOneDtype(array) THEN [err |-> "TypeError"]
        ELSE IF ~ValidSubShapes(shape_lst) THEN [err |-> "ValueError"]
        ELSE [err |-> OK,
              index |-> IndexSum([i \in 1..Len(shape_lst) |-> shape_lst[i][1]]),
              data |-> MergeArray(array)]

\* array_merged[lo:hi] along the leading axis
SliceRows(a, lo, hi) ==
    LET l == IF lo > Len(a.rows) THEN Len(a.rows) ELSE lo
        h == IF hi > Len(a.rows) THEN Len(a.rows) ELSE hi
        n == IF h > l THEN h - l ELSE 0
    IN  [t |-> "ndarray", dtype |-> a.dtype, shape |-> <<n>> \o Tail(a.shape),
         rows |-> SubSeq(a.rows, l + 1, l + n)]

\* the slices of multiarray_load, i_prev being the previous boundary
RECURSIVE LoadSlices(_, _, _, _)
LoadSlices(index, n, i_prev, array_merged) ==
    IF n >= Len(index) THEN <<SliceRows(array_merged, i_prev, Len(array_merged.rows))>>
    ELSE <<SliceRows(array_merged, i_prev, index[n])>>
         \o LoadSlices(index, n + 1, index[n], array_merged)

\* np.array(array_restore, dtype=object): slices of one common shape become
\* the rows of one dense object array, otherwise an array of arrays
ObjectArray(array_restore) ==
    IF \A i \in 1..Len(array_restore) : array_restore[i].shape = array_restore[1].shape
    THEN [t |-> "ndarray", dtype |-> "object",
          shape |-> <<Len(array_restore)>> \o array_restore[1].shape,
          rows |-> [i \in 1..Len(array_restore) |-> array_restore[i].rows]]
    ELSE [t |-> "ndarray", dtype |-> "object", subs |-> array_restore]

\* multiarray_load
multiarray_load(index, array_merged) == ObjectArray(LoadSlices(index, 1, 0, array_merged))

(***************************************************************************)
(* WRITING: _triage_write                                                  *)
(*   every operator returns [root, err]: the children of the group written *)
(*   into as the call leaves them (also when it raises: nothing is rolled  *)
(*   back) and the exception raised, OK for none                           *)
(***************************************************************************)
\* title=None of the recursive calls
NoTitle == <<"None">>

\* ChunkedList.enumerate: (start + offset, item) for each item in order
ChunkedListEnumerate(value) ==
    [n \in 1..Len(value.data) |-> [vi |-> value.start + (n - 1), sub_value |-> value.data[n]]]

\* np.atleast_1d(value) of an int, a bool or a float: a length-1 buffer
AtLeast1d(value) ==
    CASE value.t = "int"   -> [i64 |-> <<value.i>>]
      [] value.t = "bool"  -> [bool |-> <<value.b>>]
      [] value.t = "float" -> [f64 |-> <<value.f>>]

\* the while loop that deletes the children after the last element: ii is
\* never advanced, so the loop ends at the first probe that finds nothing
RECURSIVE DeleteTrailing(_, _)
DeleteTrailing(sub_root, ii) ==
    IF ~Has(sub_root, IdxName(ii)) THEN sub_root
    ELSE DeleteTrailing(Unlink(sub_root, IdxName(ii)), ii)

\* the stale-key loop leaving at its first deletion
RECURSIVE DeleteStaleKeysOnce(_, _, _, _, _)
DeleteStaleKeysOnce(names, n, sub_root, value, slash) ==
    IF n > Len(names) THEN [root |-> sub_root, err |-> OK]
    ELSE LET key == IF slash = "replace" THEN Unescape(names[n]) ELSE names[n]
         IN  IF ~InDict(StrKey(Strip4(key)), value.kv)
             THEN DelLink(sub_root, key)
             ELSE DeleteStaleKeysOnce(names, n + 1, sub_root, value, slash)

\* for key, subnode in sub_root.items(): ... del sub_root[key]
\*   names: the children listed when the iteration starts
RECURSIVE DeleteStaleKeys(_, _, _, _, _)
DeleteStaleKeys(names, n, sub_root, value, slash) ==
    IF n > Len(names) THEN [root |-> sub_root, err |-> OK]
    ELSE LET key == IF slash = "replace" THEN Unescape(names[n]) ELSE names[n]
         IN  IF ~InDict(StrKey(Strip4(key)), value.kv)
             THEN LET d == DelLink(sub_root, key)
                  IN  IF d.err # OK THEN d
                      ELSE DeleteStaleKeys(names, n + 1, d.root, value, slash)
             ELSE DeleteStaleKeys(names, n + 1, sub_root, value, slash)

RECURSIVE TriageWrite(_, _, _, _, _, _)
RECURSIVE WriteDictItems(_, _, _, _)
RECURSIVE WriteIndexed(_, _, _, _)

\* the state of a loop over the elements of a container when it starts
Entering(sub_root) == [root |-> sub_root, err |-> OK]

\* for key, sub_value in value.items(): ... _triage_write('key_' + key, ...)
\*   acc: the children so far and the exception that ended the loop
WriteDictItems(kv, n, acc, slash) ==
    IF n > Len(kv) \/ acc.err # OK THEN [root |-> acc.root, err |-> acc.err]
    ELSE IF ~kv[n].k.str THEN [root |-> acc.root, err |-> "TypeError"]
    ELSE WriteDictItems(kv, n + 1,
                        TriageWrite(KeyName(kv[n].k.s), kv[n].v, acc.root, slash, NoTitle, FALSE),
                        slash)

\* for vi, sub_value in ...: _triage_write('idx_' + vi, ...)
\*   items: the (vi, sub_value) pairs in order
WriteIndexed(items, n, acc, slash) ==
    IF n > Len(items) \/ acc.err # OK THEN [root |-> acc.root, err |-> acc.err]
    ELSE WriteIndexed(items, n + 1,
                      TriageWrite(IdxName(items[n].vi), items[n].sub_value, acc.root, slash,
                                  NoTitle, FALSE),
                      slash)

\* enumerate(value, 1): the indices counted from one
EnumerateFromOne(e) == [n \in 1..Len(e) |-> [vi |-> n, sub_value |-> e[n]]]

\* enumerate(value) of a list or tuple
Enumerate(e) == [n \in 1..Len(e) |-> [vi |-> n - 1, sub_value |-> e[n]]]

\* the children w of the group at key of r0, as the branch leaves them
InSubRoot(r0, key, w) == [root |-> SetKids(r0, key, w.root), err |-> w.err]

\* lines 204-210 after the items loop w: the stale keys go
DictStale(w, value, slash) ==
    IF w.err # OK THEN w
    ELSE DeleteStaleKeys(SortedNames(DOMAIN w.root), 1, w.root, value, slash)

\* lines 219-225 after the elements loop w: the trailing elements go
SequenceStale(w, n) ==
    IF w.err # OK THEN w ELSE [root |-> DeleteTrailing(w.root, n), err |-> OK]

\* the dict branch inside sub_root = r0[key]
WriteDictIn(r0, key, value, slash) ==
    InSubRoot(r0, key,
              DictStale(WriteDictItems(value.kv, 1, Entering(r0[key].kids), slash),
                        value, slash))

\* the dict branch, lines 196-210
WriteDict(key, value, root, slash) ==
    WriteDictIn(GetSubRoot(root, key, "dict"), key, value, slash)

\* the list/tuple branch inside sub_root = r0[key]
WriteSequenceIn(r0, key, value, slash) ==
    InSubRoot(r0, key,
              SequenceStale(WriteIndexed(Enumerate(value.e), 1, Entering(r0[key].kids), slash),
                            Len(value.e)))

\* the list/tuple branch, lines 211-225
WriteSequence(key, value, root, slash) ==
    WriteSequenceIn(GetSubRoot(root, key, value.t), key, value, slash)

\* the ChunkedList branch inside sub_root = r1[key]
WriteChunkedListIn(r1, key, value, slash) ==
    InSubRoot(r1, key,
              WriteIndexed(ChunkedListEnumerate(value), 1, Entering(r1[key].kids), slash))

\* the ChunkedList branch, lines 226-239
WriteChunkedList(key, value, root, slash) ==
    LET r0 == GetSubRoot(root, key, "chunkedlist")
        sized(r) == [r EXCEPT ![key] = [@ EXCEPT !.attrs = [TITLE |-> "chunkedlist",
                                                              SIZE |-> value.size]]]
    IN  WriteChunkedListIn(IF "SIZE" \notin DOMAIN r0[key].attrs THEN sized(r0)
                           ELSE IF r0[key].attrs.SIZE # value.size
                                THEN sized(GetSubRoot(Unlink(r0, key), key, "chunkedlist"))
                                ELSE r0,
                           key, value, slash)

\* a replace-semantics dataset: if key in root: del root[key]; create
WriteScalar(key, title, data, root) ==
    [root |-> CreateTitledDataset(DelIfPresent(root, key), key, title, data), err |-> OK]

\* the np.ndarray branch, lines 280-292: a dataset, or for an array of
\* arrays of one dtype a 'multiarray' group with datasets index and data
\* (h5py has no type for an object array and raises after the old node is gone)
WriteNdarray(key, value, root) ==
    IF ~IsObjectArrayOfOneDtype(value)
    THEN IF value.dtype = "object"
         THEN [root |-> DelIfPresent(root, key), err |-> "TypeError"]
         ELSE WriteScalar(key, "ndarray", [nd |-> value], root)
    ELSE LET d  == multiarray_dump(value)
             r0 == CreateTitledGroup(DelIfPresent(root, key), key, "multiarray")
             ix == [t |-> "ndarray", dtype |-> "int64", shape |-> <<Len(d.index)>>,
                    rows |-> [i \in 1..Len(d.index) |-> <<d.index[i]>>]]
             k1 == CreateTitledDataset(r0[key].kids, <<"index">>, "ndarray", [nd |-> ix])
             k2 == CreateTitledDataset(k1, <<"data">>, "ndarray", [nd |-> d.data])
         IN  IF d.err # OK THEN [root |-> root, err |-> d.err]
             ELSE [root |-> SetKids(r0, key, k2), err |-> OK]

\* the branches of _triage_write on the type of value, lines 196-340
TriageWriteValue(key, value, root, slash) ==
    IF value.t = "dict" THEN WriteDict(key, value, root, slash)
    ELSE IF value.t \in {"list", "tuple"} THEN WriteSequence(key, value, root, slash)
    ELSE IF value.t = "ChunkedList" THEN WriteChunkedList(key, value, root, slash)
    ELSE IF value.t = "None" THEN WriteScalar(key, "None", [bool |-> <<FALSE>>], root)
    ELSE IF value.t \in {"int", "bool", "float"}
         THEN WriteScalar(key, IF value.t = "float" THEN "float" ELSE "int",
                          AtLeast1d(value), root)
    ELSE IF value.t = "str" THEN WriteScalar(key, "unicode", [u8 |-> value.s], root)
    ELSE IF value.t = "ndarray" THEN WriteNdarray(key, value, root)
    ELSE IF value.t = "ChunkedArray"
         THEN CreateWriteChunkedArray(root, key, "chunkedarray", value)
    \* a DataFrame or Series: cleanup_data.append(...); return (the queue
    \* is CleanupData below)
    ELSE IF value.t \in {"DataFrame", "Series"} THEN [root |-> root, err |-> OK]
    ELSE [root |-> root, err |-> "TypeError"]

\* what a call returns: the container, the exception, the caller's object
Triaged(r, value) == [root |-> r.root, err |-> r.err, value |-> value]

\* lines 190-340, jc being what _json_compatible returned and left of value
TriageWriteJson(key, jc, root, slash) ==
    IF jc.err # OK THEN [root |-> root, err |-> jc.err, value |-> jc.obj]
    ELSE IF jc.res
         THEN Triaged(WriteScalar(key, "json", [u8json |-> JsonDumps(jc.obj)], root), jc.obj)
         ELSE Triaged(TriageWriteValue(key, jc.obj, root, slash), jc.obj)

\* _triage_write(key, value, root, ..., slash, title, use_json): also
\* returns value as the call leaves the caller's object (_json_compatible
\* renames keys in place)
TriageWrite(key0, value0, root, slash, title, use_json) ==
    IF key0 # title /\ HasSlash(key0) /\ slash # "replace"
    THEN [root |-> root, err |-> "ValueError", value |-> value0]
    ELSE TriageWriteJson(IF key0 # title /\ HasSlash(key0) THEN Escape(key0) ELSE key0,
                         IF use_json /\ value0.t \in {"list", "dict"}
                         THEN JsonCompatible(value0, slash)
                         ELSE [res |-> FALSE, err |-> OK, obj |-> value0],
                         root, slash)

(***************************************************************************)
(* READING: _triage_read                                                   *)
(*   returns [err, val]; a dict is returned as [t |-> "dict", m]           *)
(***************************************************************************)
\* np.array(node) of a dataset
NpArray(node) ==
    IF "f32" \in DOMAIN node.data
    THEN [t |-> "ndarray", dtype |-> "float32", shape |-> node.shape, at |-> node.data.f32]
    ELSE node.data.nd

RECURSIVE TriageRead(_, _)
RECURSIVE ReadProbe(_, _, _, _)
RECURSIVE ReadSized(_, _, _, _, _)

\* while True: subnode = node.get('idx_ii'); if None: break; append; ii += 1
ReadProbe(node, ii, data, slash) ==
    IF ~Has(node.kids, IdxName(ii)) THEN [err |-> OK, val |-> data]
    ELSE LET r == TriageRead(node.kids[IdxName(ii)], slash)
         IN  IF r.err # OK THEN r ELSE ReadProbe(node, ii + 1, Append(data, r.val), slash)

\* the loop over range(n_elems) leaving at the first absent idx_ii
RECURSIVE ReadSizedToGap(_, _, _, _, _)
ReadSizedToGap(node, ii, n_elems, data, slash) ==
    IF ii >= n_elems \/ ~Has(node.kids, IdxName(ii)) THEN [err |-> OK, val |-> data]
    ELSE LET r == TriageRead(node.kids[IdxName(ii)], slash)
         IN  IF r.err # OK THEN r
             ELSE ReadSizedToGap(node, ii + 1, n_elems, Append(data, r.val), slash)

\* for ii in range(n_elems): None for an absent idx_ii
ReadSized(node, ii, n_elems, data, slash) ==
    IF ii >= n_elems THEN [err |-> OK, val |-> data]
    ELSE IF ~Has(node.kids, IdxName(ii))
         THEN ReadSized(node, ii + 1, n_elems, Append(data, [t |-> "None"]), slash)
         ELSE LET r == TriageRead(node.kids[IdxName(ii)], slash)
              IN  IF r.err # OK THEN r
                  ELSE ReadSized(node, ii + 1, n_elems, Append(data, r.val), slash)

\* the decoded key of a child of a 'dict' group
DecodeKey(name, slash) == Strip4(IF slash = "replace" THEN Unescape(name) ELSE name)

TriageRead(node, slash) ==
    LET type_str == node.attrs.TITLE
    IN  IF node.kind = "group"
        THEN IF type_str = "dict"
             THEN LET sub   == [n \in DOMAIN node.kids |-> TriageRead(node.kids[n], slash)]
                      bad   == {n \in DOMAIN node.kids : sub[n].err # OK}
                      keys  == {DecodeKey(n, slash) : n \in DOMAIN node.kids}
                      \* data[key[4:]] = ...: in iteration order, the last name wins
                      nameOf(k) == CHOOSE n \in DOMAIN node.kids :
                                      /\ DecodeKey(n, slash) = k
                                      /\ \A n2 \in DOMAIN node.kids :
                                            DecodeKey(n2, slash) = k => (n2 = n \/ StrLess(n2, n))
                  IN  IF bad # {}
                      THEN [err |-> sub[CHOOSE n \in bad : \A n2 \in bad \ {n} : StrLess(n, n2)].err]
                      ELSE [err |-> OK,
                            val |-> [t |-> "dict", m |-> [k \in keys |-> sub[nameOf(k)].val]]]
             ELSE IF type_str \in {"list", "tuple"}
             THEN LET r == ReadProbe(node, 0, <<>>, slash)
                  IN  IF r.err # OK THEN r
                      ELSE [err |-> OK, val |-> [t |-> type_str, e |-> r.val]]
             ELSE IF type_str = "chunkedlist"
             THEN LET r == ReadSized(node, 0, node.attrs.SIZE, <<>>, slash)
                  IN  IF r.err # OK THEN r
                      ELSE [err |-> OK, val |-> [t |-> "list", e |-> r.val]]
             ELSE IF type_str = "multiarray"
             THEN IF ~Has(node.kids, <<"index">>) \/ ~Has(node.kids, <<"data">>)
                  THEN [err |-> "AttributeError"]
                  ELSE LET ma_index == TriageRead(node.kids[<<"index">>], slash)
                           ma_data  == TriageRead(node.kids[<<"data">>], slash)
                       IN  IF ma_index.err # OK THEN ma_index
                           ELSE IF ma_data.err # OK THEN ma_data
                           ELSE [err |-> OK,
                                 val |-> multiarray_load(
                                            [i \in 1..Len(ma_index.val.rows) |->
                                                ma_index.val.rows[i][1]],
                                            ma_data.val)]
             ELSE [err |-> "NotImplementedError"]
        ELSE IF type_str \in {"ndarray", "chunkedarray"}
             THEN [err |-> OK, val |-> NpArray(node)]
        ELSE IF type_str = "int"
             \* int(np.array(node)[0]): the int of a stored bool is 0 or 1
             THEN [err |-> OK,
                   val |-> [t |-> "int",
                            i |-> IF "bool" \in DOMAIN node.data
                                  THEN (IF node.data.bool[1] THEN 1 ELSE 0)
                                  ELSE node.data.i64[1]]]
        ELSE IF type_str = "float"
             THEN [err |-> OK, val |-> [t |-> "float", f |-> node.data.f64[1]]]
        ELSE IF type_str \in {"unicode", "ascii", "str"}
             THEN [err |-> OK, val |-> [t |-> "str", s |-> node.data.u8]]
        ELSE IF type_str = "json"
             THEN [err |-> OK, val |-> JsonLoads(node.data.u8json)]
        ELSE IF type_str = "None"
             THEN [err |-> OK, val |-> [t |-> "None"]]
        ELSE [err |-> "TypeError"]

(***************************************************************************)
(* The top-level operations: write_hdf5, read_hdf5                         *)
(*   the file is [exists, root]: root holds the children of the file's     *)
(*   root group.  overwrite is "True", "False" (the two bools) or a quoted *)
(*   string such as "'update'".                                            *)
(***************************************************************************)
NoFile == [exists |-> FALSE, root |-> EmptyKids]

\* isinstance(overwrite, str) answering False for every argument
IsNeverStr(overwrite) == overwrite \in {}

\* isinstance(overwrite, str)
IsStr(overwrite) == overwrite \notin {"True", "False"}

\* what write_hdf5 leaves once _triage_write returned r
Written(opened, r) ==
    [file |-> [exists |-> TRUE, root |-> r.root], err |-> r.err,
     value |-> r.value, opened |-> opened]

\* write_hdf5 for a destination given as a path: the file, the exception,
\* the caller's object after the call, and the container as opened
WriteHdf5(f, data, overwrite, title, slash, use_json) ==
    LET mode   == IF f.exists /\ IsStr(overwrite) THEN "a" ELSE "w"
        opened == IF mode = "w" THEN EmptyKids ELSE f.root
    IN  IF f.exists /\ IsStr(overwrite) /\ overwrite # "'update'"
        THEN [file |-> f, err |-> "ValueError", value |-> data, opened |-> f.root]
        ELSE IF f.exists /\ overwrite = "False"
        THEN [file |-> f, err |-> "IOError", value |-> data, opened |-> f.root]
        ELSE Written(opened, TriageWrite(title, data, opened, slash, title, use_json))

\* read_hdf5 for a source given as a path
ReadHdf5(f, title, slash) ==
    IF ~f.exists THEN [err |-> "IOError"]
    ELSE IF ~Has(f.root, title) THEN [err |-> "ValueError"]
    ELSE TriageRead(f.root[title], slash)

\* a written value as == compares it with a value read back: dicts without
\* their insertion order
RECURSIVE Canon(_)
Canon(v) ==
    IF v.t \in {"list", "tuple"} THEN [t |-> v.t, e |-> [i \in 1..Len(v.e) |-> Canon(v.e[i])]]
    ELSE IF v.t = "dict" /\ "kv" \in DOMAIN v
    THEN [t |-> "dict",
          m |-> [s \in {v.kv[i].k.s : i \in 1..Len(v.kv)} |->
                    Canon(DictGet(v.kv, StrKey(s)))]]
    ELSE v

(***************************************************************************)
(* The values written                                                      *)
(***************************************************************************)
\* the longest list, tuple and dict written
MaxLen == 3

PyNone == [t |-> "None"]

PyInt(i) == [t |-> "int", i |-> i]

PyFloat(f) == [t |-> "float", f |-> f]

PyStr(s) == [t |-> "str", s |-> s]

PyList(e) == [t |-> "list", e |-> e]

PyTuple(e) == [t |-> "tuple", e |-> e]

PyDict(kv) == [t |-> "dict", kv |-> kv]

Item(k, v) == [k |-> k, v |-> v]

\* the i-th element of the lists written: 1, 1.0, "a", 1, ...
Leaf(i) == CASE i % 3 = 1 -> PyInt(1) [] i % 3 = 2 -> PyFloat(10) [] OTHER -> PyStr(<<"a">>)

\* the i-th key of the dicts written: "a", "b", "c", "c4", ...
NthKey(i) == IF i <= 3 THEN << <<"a">>, <<"b">>, <<"c">> >>[i] ELSE <<"c">> \o IntStr(i)

ListOf(n) == PyList([i \in 1..n |-> Leaf(i)])

TupleOf(n) == PyTuple([i \in 1..n |-> Leaf(i)])

DictOf(n) == PyDict([i \in 1..n |-> Item(StrKey(NthKey(i)), Leaf(i))])

\* np.arange(n)
Arange(n) == [t |-> "ndarray", dtype |-> "int64", shape |-> <<n>>,
              rows |-> [i \in 1..n |-> <<i - 1>>]]

\* np.array([np.arange(1), np.arange(2)], dtype=object)
Ragged == [t |-> "ndarray", dtype |-> "object", subs |-> <<Arange(1), Arange(2)>>]

KeyAB == <<"a", SLASH, "b">>

KeyAFB == <<"a", FWDSLASH, "b">>

KeyAData == <<"a", SLASH, "data">>

Values ==
    {ListOf(n) : n \in 0..MaxLen} \cup {DictOf(n) : n \in 0..MaxLen}
    \cup {TupleOf(1), PyInt(2),
          PyDict(<<Item(StrKey(KeyAB), PyInt(1))>>),
          PyDict(<<Item(StrKey(KeyAFB), PyInt(2))>>),
          PyDict(<<Item(StrKey(KeyAData), PyInt(1))>>),
          PyDict(<<Item(StrKey(<<"a">>), Ragged)>>),
          PyDict(<<Item(StrKey(<<>>), PyInt(1))>>),
          PyDict(<<Item(StrKey(<<"a">>), PyInt(1)), Item([str |-> FALSE, s |-> <<"1">>], PyInt(2))>>),
          PyDict(<<Item(StrKey(<<"a">>), ListOf(MaxLen))>>),
          PyDict(<<Item(StrKey(<<"a">>), ListOf(1))>>)}

Title == <<"h5io">>

Overwrites == {"True", "'update'"}

WriteSlashes == {"error", "replace"}

ReadSlashes == {"ignore", "replace"}

(***************************************************************************)
(* The state machine: a file written and rewritten by write_hdf5           *)
(*   file  the file on disk                                                *)
(*   wr    the last write_hdf5 call: its arguments, the exception it       *)
(*         raised, the caller's object after it (after), the container as  *)
(*         it was opened (opened), and whether it repeated the call before *)
(*   rd    the last read_hdf5 call since then                              *)
(*   hist  what the chunked writes since the container was created add up  *)
(*         to (used by the chunked specifications only)                    *)
(***************************************************************************)
NoWrite == [op |-> "none"]

NoRead == [op |-> "none"]

NoHist == [op |-> "none"]

WriteRecord(r, data, overwrite, title, slash, use_json, again) ==
    [op |-> "write", data |-> data, overwrite |-> overwrite, title |-> title,
     slash |-> slash, use_json |-> use_json, err |-> r.err, after |-> r.value,
     opened |-> r.opened, again |-> again]

Init ==
    /\ file = NoFile
    /\ wr = NoWrite
    /\ rd = NoRead
    /\ hist = NoHist

\* write_hdf5(fname, data, overwrite, title='h5io', slash=slash)
Write ==
    \E data \in Values, overwrite \in Overwrites, slash \in WriteSlashes :
        \E r \in {WriteHdf5(file, data, overwrite, Title, slash, FALSE)} :
            /\ file' = r.file
            /\ wr' = WriteRecord(r, data, overwrite, Title, slash, FALSE, FALSE)
            /\ rd' = NoRead
            /\ UNCHANGED hist

\* the same call once more with overwrite='update': the same object (as the
\* first call left it) and the same title, slash and use_json
Rewrite ==
    /\ wr.op = "write"
    /\ ~wr.again
    /\ \E r \in {WriteHdf5(file, wr.after, "'update'", wr.title, wr.slash, wr.use_json)} :
           /\ file' = r.file
           /\ wr' = WriteRecord(r, wr.after, "'update'", wr.title, wr.slash, wr.use_json, TRUE)
           /\ rd' = NoRead
           /\ UNCHANGED hist

Next == Write \/ Rewrite

Spec == Init /\ [][Next]_vars

(***************************************************************************)
(* Properties of the dispatcher under rewrites (Spec)                      *)
(***************************************************************************)
\* the stored names idx_0 .. idx_(n-1)
IdxNames(n) == {IdxName(i) : i \in 0..(n - 1)}

\* the child name a successful write stores key s under
StoredKeyName(s, slash) == IF slash = "replace" THEN Escape(KeyName(s)) ELSE KeyName(s)

\* a successful write of a mapping with overwrite='update' and no JSON path
UpdatedMapping ==
    /\ wr.op = "write"
    /\ wr.err = OK
    /\ wr.overwrite = "'update'"
    /\ ~wr.use_json
    /\ wr.data.t = "dict"

\* C2: after a successful write of a mapping m under overwrite='update', for
\* either slash policy, the children of the stored 'dict' group are exactly
\* the key_<k> nodes of the keys k of m.
C2_ChildrenAreTheKeysOfM ==
    UpdatedMapping =>
        /\ Has(file.root, wr.title)
        /\ file.root[wr.title].attrs.TITLE = "dict"
        /\ DOMAIN file.root[wr.title].kids =
              {StoredKeyName(wr.data.kv[i].k.s, wr.slash) : i \in 1..Len(wr.data.kv)}

\* a successful write of a list or tuple of length n over a stored sequence
\* of the same kind with exactly the children idx_0 .. idx_(m-1), m > n
ShrunkSequence ==
    /\ wr.op = "write"
    /\ wr.err = OK
    /\ wr.data.t \in {"list", "tuple"}
    /\ Has(wr.opened, wr.title)
    /\ wr.opened[wr.title].attrs.TITLE = wr.data.t
    /\ \E m \in (Len(wr.data.e) + 1)..(MaxLen + 1) :
          DOMAIN wr.opened[wr.title].kids = IdxNames(m)

\* C3: after a successful write of a sequence of length n over a stored
\* sequence of the same kind and length m > n, the group has exactly the n
\* children idx_0 .. idx_(n-1).
C3_ShrinkLeavesExactlyN ==
    ShrunkSequence => DOMAIN file.root[wr.title].kids = IdxNames(Len(wr.data.e))

\* C4: writing the same mapping a second time to the same root with
\* overwrite='update' leaves the stored tree as the first write left it.
C4_RewriteIsIdempotent ==
    (wr.op = "write" /\ wr.again /\ wr.data.t = "dict") => file.root = wr.opened

\* a second write of a mapping of two or more keys over older content
C4_Witness ==
    /\ wr.op = "write" /\ wr.again /\ wr.err = OK
    /\ wr.data.t = "dict" /\ Len(wr.data.kv) >= 2
    /\ file.root = wr.opened

\* a key that is not a string, or is the empty string
InvalidKey(k) == ~k.str \/ k.s = <<>>

\* the invalid keys of the mapping written at the root
InvalidKeysOf(v) == IF v.t = "dict" THEN {v.kv[i].k : i \in 1..Len(v.kv)} \cap
                                         {k \in {v.kv[i].k : i \in 1..Len(v.kv)} : InvalidKey(k)}
                    ELSE {}

\* C10: writing a mapping that has a key which is not a string, or which is
\* the empty string, fails with an invalid-key error and creates no child
\* node for that key.
C10_InvalidKeyIsRejected ==
    (wr.op = "write" /\ InvalidKeysOf(wr.data) # {}) =>
        /\ wr.err \in {"TypeError", "ValueError"}
        /\ \A k \in InvalidKeysOf(wr.data) :
              Has(file.root, wr.title) /\ file.root[wr.title].kind = "group"
                  => ~Has(file.root[wr.title].kids, KeyName(k.s))

(***************************************************************************)
(* Round trips: one write_hdf5 to a fresh destination, then read_hdf5      *)
(* (SpecRT)                                                                *)
(***************************************************************************)
\* the longest list, tuple and mapping of scalars written
RTLen == 2

\* the levels of nesting added around them
RTDepth == 2

\* the values of no nesting or one level: the scalars, the lists, tuples
\* and mappings of up to RTLen scalars, and the mappings with a '/' or the
\* literal token in a key
RTBase ==
    {PyNone, PyInt(1), PyFloat(10), PyStr(<<"a">>)}
        \cup {ListOf(n) : n \in 0..RTLen}
        \cup {TupleOf(n) : n \in 0..RTLen}
        \cup {DictOf(n) : n \in 0..RTLen}
        \cup {PyDict(<<Item(StrKey(KeyAB), PyInt(1))>>),
              PyDict(<<Item(StrKey(KeyAFB), PyInt(1))>>),
              PyDict(<<Item(StrKey(<<"a">>), PyInt(1)), Item(StrKey(KeyAB), PyFloat(10))>>),
              PyDict(<<Item(StrKey(KeyAB), PyInt(1)), Item(StrKey(KeyAFB), PyFloat(10))>>)}

\* v one level deeper: in a list, in a tuple, and in mappings
Wraps(v) ==
    {PyList(<<v>>),
     PyTuple(<<PyInt(1), v>>),
     PyDict(<<Item(StrKey(<<"a">>), v)>>),
     PyDict(<<Item(StrKey(KeyAB), v), Item(StrKey(<<"b">>), PyNone)>>)}

RECURSIVE RTValuesTo(_)
RTValuesTo(d) ==
    IF d = 0 THEN RTBase
    ELSE LET p == RTValuesTo(d - 1) IN p \cup UNION {Wraps(v) : v \in p}

RTValues == RTValuesTo(RTDepth)

ReadRecord(r, slash) ==
    [op |-> "read", slash |-> slash, err |-> r.err,
     val |-> IF r.err = OK THEN r.val ELSE PyNone]

\* write_hdf5(fname, data, title='h5io', slash=slash, use_json=use_json) to
\* a destination that does not exist
RTWrite ==
    /\ ~file.exists
    /\ \E data \in RTValues, slash \in WriteSlashes, use_json \in BOOLEAN :
          \E r \in {WriteHdf5(file, data, "False", Title, slash, use_json)} :
              /\ file' = r.file
              /\ wr' = WriteRecord(r, data, "False", Title, slash, use_json, FALSE)
              /\ rd' = NoRead
              /\ UNCHANGED hist

\* read_hdf5(fname, title='h5io', slash=slash)
Read ==
    /\ file.exists
    /\ \E slash \in ReadSlashes :
          \E r \in {ReadHdf5(file, Title, slash)} :
              /\ rd' = ReadRecord(r, slash)
              /\ UNCHANGED <<file, wr, hist>>

NextRT == RTWrite \/ Read

SpecRT == Init /\ [][NextRT]_vars

\* every mapping key in v, at any depth, is a non-empty string without '/'
RECURSIVE KeysPlain(_)
KeysPlain(v) ==
    IF v.t \in {"list", "tuple"} THEN \A i \in 1..Len(v.e) : KeysPlain(v.e[i])
    ELSE IF v.t = "dict"
    THEN \A i \in 1..Len(v.kv) :
            /\ v.kv[i].k.str /\ v.kv[i].k.s # <<>> /\ ~HasSlash(v.kv[i].k.s)
            /\ KeysPlain(v.kv[i].v)
    ELSE TRUE

\* a read with the default slash after a write with the default slash, with
\* or without use_json, of a value whose mapping keys are plain
PlainRoundTrip ==
    /\ rd.op = "read" /\ rd.slash = "ignore"
    /\ wr.slash = "error"
    /\ KeysPlain(wr.data)

\* C1: for every value built from None, int, float, str, mappings with
\* non-empty string keys without '/', lists and tuples, write_hdf5 to a fresh
\* destination followed by read_hdf5 returns an equal value: lists as lists,
\* tuples as tuples, ints as ints, floats as floats.
C1_RoundTrip ==
    PlainRoundTrip => wr.err = OK /\ rd.err = OK /\ rd.val = Canon(wr.data)

\* the round trip of {'a': (1, [1, 1.0])}
C1_Witness ==
    /\ PlainRoundTrip
    /\ wr.data = PyDict(<<Item(StrKey(<<"a">>), PyTuple(<<PyInt(1), ListOf(2)>>))>>)
    /\ rd.err = OK
    /\ rd.val = [t |-> "dict",
                 m |-> [k \in {<<"a">>} |->
                          [t |-> "tuple",
                           e |-> <<[t |-> "int", i |-> 1],
                                   [t |-> "list", e |-> <<[t |-> "int", i |-> 1],
                                                          [t |-> "float", f |-> 10]>>]>>]]]

\* no mapping key in v, at any depth, holds the literal token {FWDSLASH}
RECURSIVE NoTokenKeys(_)
NoTokenKeys(v) ==
    IF v.t \in {"list", "tuple"} THEN \A i \in 1..Len(v.e) : NoTokenKeys(v.e[i])
    ELSE IF v.t = "dict"
    THEN \A i \in 1..Len(v.kv) :
            /\ \A n \in 1..Len(v.kv[i].k.s) : v.kv[i].k.s[n] # FWDSLASH
            /\ NoTokenKeys(v.kv[i].v)
    ELSE TRUE

\* C9: for every mapping whose keys are strings that may contain '/', with
\* the JSON fast path disabled or enabled, write_hdf5 with slash='replace'
\* followed by read_hdf5 with slash='replace' returns a mapping with exactly
\* the original keys and values.
C9_SeparatorKeysRoundTrip ==
    (/\ rd.op = "read" /\ rd.slash = "replace"
     /\ wr.slash = "replace"
     /\ wr.data.t = "dict" /\ NoTokenKeys(wr.data))
        => wr.err = OK /\ rd.err = OK /\ rd.val = Canon(wr.data)

\* the keys of the mapping just written at the root with slash='replace'
ReplacedMapping == wr.op = "write" /\ wr.slash = "replace" /\ wr.data.t = "dict"

KeysWritten == {wr.data.kv[i].k.s : i \in 1..Len(wr.data.kv)}

\* C18: under slash='replace' two different keys of one mapping are never
\* stored under the same child name, every key written is a child of the
\* group when the call (its stale-child pass included) ends, and a read
\* with slash='replace' returns each key as its own string
C18_EscapeIsInjective ==
    ReplacedMapping =>
        /\ \A k1 \in KeysWritten, k2 \in KeysWritten :
              k1 # k2 => StoredKeyName(k1, "replace") # StoredKeyName(k2, "replace")
        /\ wr.err = OK
        /\ \A k \in KeysWritten : Has(file.root[wr.title].kids, StoredKeyName(k, "replace"))
        /\ (rd.op = "read" /\ rd.slash = "replace") =>
              rd.err = OK /\ rd.val.t = "dict" /\ DOMAIN rd.val.m = KeysWritten

\* C19: whatever slash and use_json are and whether the call raises or not,
\* the mapping passed to write_hdf5 has the same keys and values after the
\* call as before it
C19_CallerValueUnchanged ==
    (wr.op = "write" /\ wr.data.t = "dict") => wr.after = wr.data

(***************************************************************************)
(* Chunked arrays: an array written one ChunkedArray fragment per call     *)
(* (SpecCA)                                                                *)
(*   hist = [src, done]: the array the fragments are cut from and the      *)
(*   chunk indices written since the dataset was created                   *)
(***************************************************************************)
\* the number of chunks of the array
NChunks == 2

\* the extent of a chunk along the last axis
ChunkLen == 2

\* the extents of the first two axes
CAX == 2

CAY == 1

\* shape = (x, y, chunk_size[2] * n_chunks), chunk_size = (x, y, c)
CAShape == <<CAX, CAY, ChunkLen * NChunks>>

CAChunk == <<CAX, CAY, ChunkLen>>

\* the 2-D geometry: chunk_size = (3, 2), shape = (3, chunk_size[1] * n_chunks)
CA2DChunk == <<3, 2>>

CA2DShape == <<3, CA2DChunk[2] * NChunks>>

\* all_data: a float64 array with pairwise different nonzero elements; big
\* puts 2^24 + 1, which no float32 holds, at its origin
AllData(shape, big) ==
    [t |-> "ndarray", dtype |-> "float64", shape |-> shape,
     at |-> [ix \in IndexSet(shape) |->
                IF big /\ \A d \in 1..Len(ix) : ix[d] = 0 THEN F32Exact + 1
                ELSE 1 + ix[1] + shape[1] * (IF Len(ix) = 2 THEN ix[2]
                                             ELSE ix[2] + shape[2] * ix[3])]]

\* a[..., st:end]: the slice of the last axis, clipped to its extent
LastAxisSlice(a, st, end) ==
    LET n   == Len(a.shape)
        lo  == IF st > a.shape[n] THEN a.shape[n] ELSE st
        hi  == IF end > a.shape[n] THEN a.shape[n] ELSE end
        shp == [a.shape EXCEPT ![n] = hi - lo]
    IN  [t |-> "ndarray", dtype |-> a.dtype, shape |-> shp,
         at |-> [ix \in IndexSet(shp) |-> a.at[[ix EXCEPT ![n] = @ + lo]]]]

\* ChunkedArray(all_data[..., st:end], shape=shape, chunk_size=chunk_size,
\* n_chunk=t_chunk) with st = t_chunk * c and end = (t_chunk + 1) * c
Fragment(src, shape, chunk_size, t_chunk) ==
    ChunkedArrayInit(LastAxisSlice(src, t_chunk * chunk_size[Len(chunk_size)],
                                   (t_chunk + 1) * chunk_size[Len(chunk_size)]),
                     shape, chunk_size, t_chunk)

\* the shapes and chunk sizes a later fragment declares: the stored ones and
\* ones that differ from them in one axis
CAShapes == {CAShape, [CAShape EXCEPT ![3] = @ + ChunkLen], [CAShape EXCEPT ![1] = @ + 1]}

CAChunks == {CAChunk, [CAChunk EXCEPT ![3] = @ + 1], [CAChunk EXCEPT ![1] = 1]}

\* the chunks written so far, after the write of chunk i returned r
Assembled(h, r, i) == IF r.err = OK THEN [h EXCEPT !.done = @ \cup {i}] ELSE h

\* the constructor raised: nothing is written
Unconstructed(frag, shape, chunk_size, t_chunk) ==
    /\ wr' = [op |-> "construct", err |-> frag.err, shape |-> shape,
              chunk_size |-> chunk_size, n_chunk |-> t_chunk]
    /\ rd' = NoRead
    /\ UNCHANGED <<file, hist>>

\* write_hdf5(fname, chunk, overwrite=overwrite) for a constructed chunk
CAIssue(frag, overwrite, h, t_chunk) ==
    \E r \in {WriteHdf5(file, frag.obj, overwrite, Title, "error", FALSE)} :
        /\ file' = r.file
        /\ wr' = WriteRecord(r, frag.obj, overwrite, Title, "error", FALSE, FALSE)
        /\ rd' = NoRead
        /\ hist' = Assembled(h, r, t_chunk)

\* the first fragment of an array: overwrite=True
CAStart ==
    \E big \in BOOLEAN, t_chunk \in 0..(NChunks - 1) :
        \E frag \in {Fragment(AllData(CAShape, big), CAShape, CAChunk, t_chunk)} :
            IF frag.err # OK THEN Unconstructed(frag, CAShape, CAChunk, t_chunk)
            ELSE CAIssue(frag, "True",
                         [op |-> "ca", src |-> AllData(CAShape, big), done |-> {}], t_chunk)

\* a later fragment of the same array, of any chunk index and geometry:
\* overwrite='update'
CAUpdate ==
    /\ hist.op = "ca"
    /\ \E t_chunk \in 0..(NChunks + 1), shape \in CAShapes, chunk_size \in CAChunks :
          \E frag \in {Fragment(hist.src, shape, chunk_size, t_chunk)} :
              IF frag.err # OK THEN Unconstructed(frag, shape, chunk_size, t_chunk)
              ELSE CAIssue(frag, "'update'", hist, t_chunk)

\* a fragment of a 2-D array: overwrite = "update" if t_chunk > 0 else True
CAWrite2D ==
    \E t_chunk \in 0..(NChunks - 1) :
        \E frag \in {Fragment(AllData(CA2DShape, FALSE), CA2DShape, CA2DChunk, t_chunk)} :
            IF frag.err # OK THEN Unconstructed(frag, CA2DShape, CA2DChunk, t_chunk)
            ELSE CAIssue(frag, IF t_chunk > 0 THEN "'update'" ELSE "True", NoHist, t_chunk)

NextCA == CAStart \/ CAUpdate \/ CAWrite2D \/ Read

SpecCA == Init /\ [][NextCA]_vars

\* C5: for a 3-D array of shape (x, y, c*N) and chunk geometry (x, y, c),
\* writing the N fragments to the same key in any order of the chunk
\* indices and then reading returns the original full array.
C5_AssemblyReturnsOriginal ==
    (rd.op = "read" /\ hist.op = "ca" /\ hist.done = 0..(NChunks - 1)) =>
        /\ rd.err = OK
        /\ rd.val.shape = hist.src.shape
        /\ \A ix \in IndexSet(hist.src.shape) : rd.val.at[ix] = hist.src.at[ix]

\* an attempt to write a fragment of 2-D geometry
Attempt2D ==
    \/ wr.op = "construct" /\ Len(wr.shape) = 2
    \/ wr.op = "write" /\ wr.data.t = "ChunkedArray" /\ Len(wr.data.shape) = 2

\* C6: for a 2-D array of shape (3, 2*N) with chunk geometry (3, 2),
\* constructing the fragment for chunk i from columns [2i, 2i+2) succeeds,
\* and its region is the columns [2i, 2i+2) of the last axis.
C6_Fragment2DIsConstructed ==
    Attempt2D =>
        /\ wr.op = "write"
        /\ wr.data.chunk_start = 2 * wr.data.n_chunk
        /\ wr.data.chunk_end = 2 * wr.data.n_chunk + 2

\* two tuples that differ in some axis
DiffersInAnAxis(a, b) == Len(a) # Len(b) \/ \E d \in 1..Len(a) : a[d] # b[d]

\* a ChunkedArray write to a key that holds a chunked dataset whose shape
\* or chunk geometry differs from the declared one in some axis
GeometryMismatch ==
    /\ wr.op = "write"
    /\ wr.data.t = "ChunkedArray"
    /\ Has(wr.opened, wr.title)
    /\ wr.opened[wr.title].attrs.TITLE = "chunkedarray"
    /\ \/ DiffersInAnAxis(wr.opened[wr.title].shape, wr.data.shape)
       \/ DiffersInAnAxis(wr.opened[wr.title].chunks, wr.data.chunk_size)

\* C7: once a chunked dataset exists at a key, a later ChunkedArray write to
\* that key whose declared shape or chunk size differs from the stored one
\* in any axis fails with a shape-mismatch error and leaves the stored
\* dataset unchanged.
C7_MismatchIsRejected ==
    GeometryMismatch => wr.err = "ValueError" /\ file.root = wr.opened

\* a rejected fragment whose shape differs in the last axis only, after two
\* chunks were written
C7_Witness ==
    /\ GeometryMismatch
    /\ wr.err = "ValueError"
    /\ wr.data.shape = [CAShape EXCEPT ![3] = @ + ChunkLen]
    /\ wr.data.chunk_size = CAChunk
    /\ Cardinality(hist.done) >= 2
    /\ file.root = wr.opened

(***************************************************************************)
(* Chunked lists: a list written one ChunkedList fragment per call         *)
(* (SpecCL)                                                                *)
(*   hist = [size, ok, cover]: the size the first fragment declared,       *)
(*   whether every write since succeeded and declared that size, and for   *)
(*   each index the value of the last fragment that covered it             *)
(***************************************************************************)
\* the declared total size
CLSize == 2

\* the longest fragment
CLFrag == 2

\* ChunkedList(data, size, start)
ChunkedList(data, size, start) ==
    [t |-> "ChunkedList", data |-> data, size |-> size, start |-> start]

\* the values of the elements
CLElems == {PyInt(1), ListOf(2)}

\* the fragments of a list of n elements: up to CLFrag elements from start
CLFragments(n) ==
    UNION {{ChunkedList(data, n, start) : data \in [1..len -> CLElems], start \in 0..(n - len)} :
           len \in 1..CLFrag}

\* the fragments that declare a list one element longer and hold its last
\* element
CLLonger == {ChunkedList(<<e>>, CLSize + 1, CLSize) : e \in CLElems}

\* no index covered
Uncovered(n) == [i \in 0..(n - 1) |-> PyNone]

\* the cover after a fragment
Cover(cover, chunk) ==
    [i \in DOMAIN cover |->
        IF i >= chunk.start /\ i < chunk.start + Len(chunk.data)
        THEN chunk.data[i - chunk.start + 1] ELSE cover[i]]

\* the first fragment of a list, to a new destination or over a list that
\* was given up: overwrite=True
CLStart ==
    /\ hist.op = "cl" => ~hist.ok
    /\ \E chunk \in CLFragments(CLSize) :
          \E r \in {WriteHdf5(file, chunk, "True", Title, "error", FALSE)} :
              /\ file' = r.file
              /\ wr' = WriteRecord(r, chunk, "True", Title, "error", FALSE, FALSE)
              /\ rd' = NoRead
              /\ hist' = [op |-> "cl", size |-> chunk.size, ok |-> r.err = OK,
                          cover |-> Cover(Uncovered(chunk.size), chunk)]

\* a later fragment, of the same or of another declared size:
\* overwrite='update'
CLUpdate ==
    /\ hist.op = "cl"
    /\ \E chunk \in CLFragments(CLSize) \cup CLLonger :
          \E r \in {WriteHdf5(file, chunk, "'update'", Title, "error", FALSE)} :
              /\ file' = r.file
              /\ wr' = WriteRecord(r, chunk, "'update'", Title, "error", FALSE, FALSE)
              /\ rd' = NoRead
              /\ hist' = IF r.err = OK /\ chunk.size = hist.size
                         THEN [hist EXCEPT !.cover = Cover(@, chunk)]
                         ELSE [hist EXCEPT !.ok = FALSE, !.cover = Uncovered(hist.size)]

NextCL == CLStart \/ CLUpdate \/ Read

SpecCL == Init /\ [][NextCL]_vars

\* a read after fragments that all declared the same size
CLReadBack == rd.op = "read" /\ hist.op = "cl" /\ hist.ok

\* C8: after any sequence of ChunkedList fragment writes to the same key
\* that all declare the same total size S, the first creating the container
\* and the rest with overwrite='update', a read returns a list of exactly S
\* elements: element i is the value of the most recent fragment that covered
\* index i, and None where no fragment did.
C8_ListIsAssembled ==
    CLReadBack =>
        /\ rd.err = OK
        /\ rd.val = [t |-> "list", e |-> [n \in 1..hist.size |-> Canon(hist.cover[n - 1])]]

\* a read after an update that covered index 0 again and with index 1 never
\* covered
C8_Witness ==
    /\ CLReadBack
    /\ wr.overwrite = "'update'"
    /\ wr.data.start = 0
    /\ Has(wr.opened[wr.title].kids, IdxName(0))
    /\ TriageRead(wr.opened[wr.title].kids[IdxName(0)], "ignore").val # Canon(wr.data.data[1])
    /\ hist.cover[1] = PyNone
    /\ Len(rd.val.e) = hist.size
    /\ rd.val.e[2] = PyNone

(***************************************************************************)
(* The arguments of write_hdf5: overwrite and title (SpecTop)              *)
(*   wr also records the file as it was before the call (before)           *)
(***************************************************************************)
\* overwrite: the two bools, 'update' and another string
AllOverwrites == {"True", "False", "'update'", "'append'"}

\* two root titles
Titles == {Title, <<"b">>}

\* the values written: scalars, containers, and a mapping whose write raises
TopValues == {PyInt(1), ListOf(2), DictOf(1), DictOf(2), PyDict(<<Item(StrKey(KeyAB), PyInt(1))>>)}

\* write_hdf5(fname, data, overwrite=overwrite, title=title)
TopWrite ==
    \E data \in TopValues, overwrite \in AllOverwrites, title \in Titles :
        \E r \in {WriteHdf5(file, data, overwrite, title, "error", FALSE)} :
            /\ file' = r.file
            /\ wr' = [before |-> file] @@ WriteRecord(r, data, overwrite, title, "error", FALSE, FALSE)
            /\ rd' = NoRead
            /\ UNCHANGED hist

\* read_hdf5(fname, title=title)
TopRead ==
    /\ file.exists
    /\ \E title \in Titles :
          \E r \in {ReadHdf5(file, title, "ignore")} :
              /\ rd' = [title |-> title] @@ ReadRecord(r, "ignore")
              /\ UNCHANGED <<file, wr, hist>>

NextTop == TopWrite \/ TopRead

SpecTop == Init /\ [][NextTop]_vars

\* C11: write_hdf5 called with overwrite equal to any string other than
\* 'update' fails with an invalid-argument error and writes nothing, whether
\* or not the destination file already exists.
C11_InvalidOverwriteIsRejected ==
    (wr.op = "write" /\ IsStr(wr.overwrite) /\ wr.overwrite # "'update'") =>
        wr.err = "ValueError" /\ file = wr.before

\* the root titles other than the one written
OtherTitles == Titles \ {wr.title}

\* a write with overwrite='update' to a destination that exists
UpdateOfExisting == wr.op = "write" /\ wr.overwrite = "'update'" /\ wr.before.exists

\* C12: a write with overwrite='update' and root title t to an existing
\* destination leaves the subtree stored under every other root title
\* unchanged (also when the write raises); a write with overwrite=True
\* discards the other roots.
C12_UpdateKeepsOtherRoots ==
    /\ UpdateOfExisting =>
          \A t \in OtherTitles :
              /\ Has(file.root, t) <=> Has(wr.before.root, t)
              /\ Has(file.root, t) => file.root[t] = wr.before.root[t]
    /\ (wr.op = "write" /\ wr.overwrite = "True") =>
          \A t \in OtherTitles : ~Has(file.root, t)

\* an update of one root, successful, next to another root that holds a list
C12_Witness ==
    /\ UpdateOfExisting
    /\ wr.err = OK
    /\ wr.title = Title
    /\ wr.data = DictOf(1)
    /\ Has(wr.before.root, Title)
    /\ Has(file.root, <<"b">>)
    /\ file.root[<<"b">>].attrs.TITLE = "list"
    /\ file.root[<<"b">>] = wr.before.root[<<"b">>]

(***************************************************************************)
(* One root written again and again, the value changing its type class,    *)
(* its length and its keys from one write_hdf5 call to the next (SpecUp)   *)
(*   hist  [op |-> "up", ok]: every call since the container was created   *)
(*         returned without an exception and wrote a value of UpPlain      *)
(***************************************************************************)
PyBool(b) == [t |-> "bool", b |-> b]

\* the key 'a{FWDSLASH}key_b': the literal token, no '/'
KeyAFKeyB == <<"a", FWDSLASH, "key_", "b">>

\* None, ints, floats, strings, and the lists, tuples and mappings (keys
\* without '/') built from them
UpPlain ==
    {PyNone, PyInt(1), PyFloat(10), PyStr(<<"a">>),
     ListOf(1), ListOf(2), TupleOf(2), DictOf(1), DictOf(2),
     PyDict(<<Item(StrKey(<<"a">>), ListOf(2))>>),
     PyDict(<<Item(StrKey(<<"a">>), PyDict(<<Item(StrKey(<<"b">>), PyInt(2))>>))>>),
     PyDict(<<Item(StrKey(KeyAFKeyB), PyInt(1))>>)}

\* True, and True and False as members of a list and of a mapping
UpBools ==
    {PyBool(TRUE), PyList(<<PyBool(FALSE), PyInt(1)>>),
     PyDict(<<Item(StrKey(<<"a">>), PyBool(TRUE))>>)}

\* ChunkedArray(np.ones((1, 1, 1)), shape=(1, 1, 2), chunk_size=(1, 1, 1),
\* n_chunk=0) and ChunkedList([1], size=2, start=0)
UpChunked ==
    {Fragment(AllData(<<1, 1, 2>>, FALSE), <<1, 1, 2>>, <<1, 1, 1>>, 0).obj,
     ChunkedList(<<PyInt(1)>>, 2, 0)}

UpValues == UpPlain \cup UpBools \cup UpChunked

\* write_hdf5(fname, data, overwrite=overwrite, slash=slash)
UpWrite ==
    \E data \in UpValues, overwrite \in Overwrites, slash \in WriteSlashes :
        \E r \in {WriteHdf5(file, data, overwrite, Title, slash, FALSE)} :
            /\ file' = r.file
            /\ wr' = [before |-> file]
                        @@ WriteRecord(r, data, overwrite, Title, slash, FALSE, FALSE)
            /\ rd' = NoRead
            /\ hist' = [op |-> "up",
                        ok |-> /\ r.err = OK
                               /\ data \in UpPlain
                               /\ (file.exists /\ overwrite = "'update'") => hist.ok]

NextUp == UpWrite \/ Read

SpecUp == Init /\ [][NextUp]_vars

\* the root a call wrote over: present before the call, of a tag t0
OverNode == wr.op = "write" /\ wr.overwrite = "'update'" /\ Has(wr.before.root, wr.title)

\* C13: a write of a supported value over a stored node of another tag
\* deletes that node and creates a new one: the call succeeds and the node
\* is afterwards what the same call writes to an empty container, so it has
\* the tag of the value and no child or payload of the old node
C13_TypeChangeReplacesNode ==
    OverNode =>
        \E fresh \in {WriteHdf5(NoFile, wr.data, "True", wr.title, wr.slash, wr.use_json)} :
            (/\ fresh.err = OK
             /\ fresh.file.root[wr.title].attrs.TITLE
                    # wr.before.root[wr.title].attrs.TITLE)
                => /\ wr.err = OK
                   /\ file.root[wr.title] = fresh.file.root[wr.title]

\* a read with the default slash after a successful write to a new
\* container
ReadOfFresh ==
    /\ rd.op = "read" /\ rd.slash = "ignore"
    /\ wr.op = "write" /\ wr.err = OK /\ ~wr.before.exists

\* C14: a bool written at the root or as a member of a list or a mapping,
\* use_json off, is read back as a bool: the value read equals the value
\* written
C14_BoolIsReadAsBool ==
    (ReadOfFresh /\ wr.data \in UpBools /\ ~wr.use_json) =>
        rd.err = OK /\ rd.val = Canon(wr.data)

\* C17: after successful writes of values of UpPlain to one root title,
\* each but the first with overwrite='update', read_hdf5 returns the value
\* written last
C17_LastWriteWins ==
    (rd.op = "read" /\ rd.slash = "ignore" /\ hist.op = "up" /\ hist.ok) =>
        rd.err = OK /\ rd.val = Canon(wr.data)

(***************************************************************************)
(* multiarray_dump and multiarray_load applied to arrays of arrays         *)
(* (SpecMA)                                                                *)
(*   wr  the last multiarray_dump call: its argument and what it returned  *)
(*   rd  multiarray_load of what that call returned                        *)
(***************************************************************************)
\* the most sub-arrays of an array of arrays
MASubs == 2

\* the longest sub-array along its leading axis
MARows == 2

\* the trailing dimensions of a sub-array: none (1-D) or (2,)
MATrailing == {<<>>, <<2>>}

\* the i-th sub-array: len rows of pairwise different numbers
MASub(i, len, trailing, dtype) ==
    [t |-> "ndarray", dtype |-> dtype, shape |-> <<len>> \o trailing,
     rows |-> [j \in 1..len |->
                  [c \in 1..(IF trailing = <<>> THEN 1 ELSE trailing[1]) |->
                      100 * i + 10 * j + c]]]

\* a = np.empty(n, dtype=object); a[i] = sub_i: the subs of one dtype, of
\* any leading lengths (0 included) and of equal or unequal trailing
\* dimensions
MAArrays ==
    UNION {{[t |-> "ndarray", dtype |-> "object",
             subs |-> [i \in 1..n |-> MASub(i, len[i], tr[i], dtype)]] :
                len \in [1..n -> 0..MARows], tr \in [1..n -> MATrailing],
                dtype \in {"int64", "float64"}} :
           n \in 1..MASubs}

\* index, data = multiarray_dump(a)
MADump ==
    \E a \in MAArrays :
        \E r \in {multiarray_dump(a)} :
            /\ wr' = [op |-> "dump", array |-> a, err |-> r.err,
                      index |-> IF r.err = OK THEN r.index ELSE <<>>,
                      data |-> IF r.err = OK THEN r.data ELSE PyNone]
            /\ rd' = NoRead
            /\ UNCHANGED <<file, hist>>

\* multiarray_load(index, data)
MALoad ==
    /\ wr.op = "dump"
    /\ wr.err = OK
    /\ rd' = [op |-> "load", val |-> multiarray_load(wr.index, wr.data)]
    /\ UNCHANGED <<file, wr, hist>>

NextMA == MADump \/ MALoad

SpecMA == Init /\ [][NextMA]_vars

\* len(a[0]) + ... + len(a[i]), i counted from 1
RECURSIVE CumLen(_, _)
CumLen(subs, i) == IF i = 0 THEN 0 ELSE CumLen(subs, i - 1) + subs[i].shape[1]

\* len(b) and b[i] of an object array b, i counted from 1
NumElems(b) == IF "subs" \in DOMAIN b THEN Len(b.subs) ELSE b.shape[1]

ElemOf(b, i) ==
    IF "subs" \in DOMAIN b THEN [shape |-> b.subs[i].shape, rows |-> b.subs[i].rows]
    ELSE [shape |-> Tail(b.shape), rows |-> b.rows[i]]

\* C15: for every array a that multiarray_dump accepts, the index returned
\* holds the cumulative lengths of the elements of a, and multiarray_load of
\* what was returned has as many elements as a, each of the shape and the
\* entries of the element of a at its place
C15_LoadInvertsDump ==
    (wr.op = "dump" /\ wr.err = OK) =>
        /\ wr.index = [i \in 1..Len(wr.array.subs) |-> CumLen(wr.array.subs, i)]
        /\ rd.op = "load" =>
              /\ NumElems(rd.val) = Len(wr.array.subs)
              /\ \A i \in 1..Len(wr.array.subs) :
                    ElemOf(rd.val, i) = ElemOf(wr.array, i)

(***************************************************************************)
(* One write_hdf5 call of a value holding pandas objects, step by step     *)
(* (SpecPD)                                                                *)
(*   wr  the call in flight: its destination (a path, or an h5py.File the  *)
(*       caller holds open), its position pc, the state of the container   *)
(*       handle the recursive write goes through (primary), cleanup_data   *)
(*       (queue), and for every invocation of _create_pandas_dataset the   *)
(*       state of that handle when it was made (bridged)                   *)
(*   pc  "opened" before _write, "written" after it, "cleanup" after the   *)
(*       with block, "raised" when the call ended with an exception        *)
(***************************************************************************)
\* a pandas DataFrame or Series
Frame(t, id) == [t |-> t, id |-> id]

PDValues ==
    {Frame("DataFrame", 1),
     PyInt(1),
     PyDict(<<Item(StrKey(<<"a">>), Frame("DataFrame", 1))>>),
     PyDict(<<Item(StrKey(<<"a">>), Frame("DataFrame", 1)),
              Item(StrKey(<<"b">>), Frame("Series", 2))>>),
     PyList(<<PyInt(1), Frame("Series", 2)>>),
     PyDict(<<Item(StrKey(<<"a">>), PyList(<<Frame("DataFrame", 1)>>))>>),
     PyDict(<<Item(StrKey(<<"a">>), Frame("DataFrame", 1)), Item(StrKey(KeyAB), PyInt(1))>>)}

\* cleanup_data as _triage_write(key, value, root) and its recursive calls
\* leave it: one entry {title: (root.name, key, value)} for every DataFrame
\* and Series, in the order of the traversal; rootname is root.name as the
\* names on the path from the top
RECURSIVE CleanupData(_, _, _)
CleanupData(key, value, rootname) ==
    IF value.t \in {"DataFrame", "Series"}
    THEN << [title |-> IF value.t = "DataFrame" THEN "pd_dataframe" ELSE "pd_series",
             rootname |-> rootname, key |-> key, value |-> value] >>
    ELSE LET ch == IF value.t = "dict"
                   THEN [i \in 1..Len(value.kv) |->
                            [key |-> KeyName(value.kv[i].k.s), v |-> value.kv[i].v]]
                   ELSE IF value.t \in {"list", "tuple"}
                   THEN [i \in 1..Len(value.e) |-> [key |-> IdxName(i - 1), v |-> value.e[i]]]
                   ELSE <<>>
             RECURSIVE From(_)
             From(n) == IF n > Len(ch) THEN <<>>
                        ELSE CleanupData(ch[n].key, ch[n].v, Append(rootname, key))
                                \o From(n + 1)
         IN  From(1)

\* _create_pandas_dataset for a file name: data.to_hdf(fname, rootpath)
\* puts the pandas node at rootpath = rootname/key in place of what is
\* there, then TITLE is set to 'pd_dataframe'
RECURSIVE CreatePandasDataset(_, _, _, _)
CreatePandasDataset(root, rootname, key, data) ==
    IF rootname = <<>>
    THEN Link(DelIfPresent(root, key), key,
              [kind |-> "group", attrs |-> [TITLE |-> "pd_dataframe"], kids |-> EmptyKids,
               frame |-> data])
    ELSE SetKids(root, Head(rootname),
                 CreatePandasDataset(root[Head(rootname)].kids, Tail(rootname), key, data))

\* no call in flight: none made, or the last one raised or left its cleanup
\* loop
InCleanup == IF wr.pc = "written" THEN wr.dest = "handle" ELSE wr.pc = "cleanup"

Returned ==
    IF wr.op # "call" THEN TRUE
    ELSE IF wr.pc = "raised" THEN TRUE
    ELSE InCleanup /\ wr.queue = <<>>

\* write_hdf5(fname, data, overwrite=overwrite) up to _write: for a path the
\* file is opened with mode 'w' or 'a'; an h5py.File is taken as it is, open
\* on the file as it stands
PDCall ==
    /\ Returned
    /\ \E dest \in {"path", "handle"}, data \in PDValues, overwrite \in Overwrites :
          /\ file' = [exists |-> TRUE,
                      root |-> IF dest = "handle" \/ (file.exists /\ IsStr(overwrite))
                               THEN file.root ELSE EmptyKids]
          /\ wr' = [op |-> "call", dest |-> dest, data |-> data, overwrite |-> overwrite,
                    pc |-> "opened", primary |-> "open", queue |-> <<>>, bridged |-> <<>>,
                    err |-> OK]
          /\ UNCHANGED <<rd, hist>>

\* _write(fid, cleanup_data): the recursive write; an exception leaves the
\* with block, which closes the handle it opened
PDTriage ==
    /\ wr.op = "call"
    /\ wr.pc = "opened"
    /\ \E r \in {TriageWrite(Title, wr.data, file.root, "error", Title, FALSE)} :
          /\ file' = [file EXCEPT !.root = r.root]
          /\ wr' = IF r.err # OK
                   THEN [wr EXCEPT !.pc = "raised", !.err = r.err,
                                   !.primary = IF wr.dest = "path" THEN "closed" ELSE @]
                   ELSE [wr EXCEPT !.pc = "written",
                                   !.queue = CleanupData(Title, wr.data, <<>>)]
    /\ UNCHANGED <<rd, hist>>

\* the end of `with h5py.File(fname, mode=mode) as fid:`
PDClose ==
    /\ wr.op = "call"
    /\ wr.pc = "written"
    /\ wr.dest = "path"
    /\ wr' = [wr EXCEPT !.pc = "cleanup", !.primary = "closed"]
    /\ UNCHANGED <<file, rd, hist>>

\* one turn of `for data in cleanup_data:`: _create_pandas_dataset(fname,
\* rootname, key, title, value).  Given an h5py.File for fname, to_hdf takes
\* it for an HDFStore and raises AttributeError
PDBridge ==
    /\ wr.op = "call"
    /\ InCleanup
    /\ wr.queue # <<>>
    /\ \E item \in {Head(wr.queue)} :
          /\ file' = IF wr.dest = "handle" THEN file
                     ELSE [file EXCEPT !.root = CreatePandasDataset(@, item.rootname,
                                                                    item.key, item.value)]
          /\ wr' = IF wr.dest = "handle"
                   THEN [wr EXCEPT !.pc = "raised", !.err = "AttributeError",
                                   !.bridged = Append(@, [key |-> item.key,
                                                          primary |-> wr.primary])]
                   ELSE [wr EXCEPT !.queue = Tail(@),
                                   !.bridged = Append(@, [key |-> item.key,
                                                          primary |-> wr.primary])]
    /\ UNCHANGED <<rd, hist>>

NextPD == PDCall \/ PDTriage \/ PDClose \/ PDBridge

SpecPD == Init /\ [][NextPD]_vars

\* C16: in every write_hdf5 call, to a path or to an open h5py.File, a
\* DataFrame or Series is only queued while the recursive write runs, and
\* every invocation of the pandas bridge is made after the container handle
\* of the recursive write was closed
C16_BridgeAfterClose ==
    wr.op = "call" =>
        /\ wr.pc = "opened" => wr.bridged = <<>>
        /\ \A i \in 1..Len(wr.bridged) : wr.bridged[i].primary = "closed"

====
